---- MODULE Spec2Model ----
(***************************************************************************)
(* Dual marching cubes tessellation (src/tessellation/dual_marching_cubes.rs) *)
(* as a state machine.  One behaviour is one call of                        *)
(* DualMarchingCubes::tesselate on a freshly constructed engine.            *)
(*                                                                          *)
(* Numbers.  Float quantities are integers in a fixed unit: the resolution  *)
(* res is 420 units, so that PRECISION * res = 21 and the retry paddings    *)
(* res / 10 = 42 and res / 10.5 = 40 are exact.  Comparisons against        *)
(* s * res * sqrt(3) are done on squares.  Tuples are 1-based: idx[0] of    *)
(* the source is idx[1] here.                                               *)
(*                                                                          *)
(* Collaborators that are not part of the source file (the implicit        *)
(* object, CELL_CONFIGS, VertexIndex::neighbor, Qef) are modelled from      *)
(* their contracts; each such definition says so.                           *)
(***************************************************************************)
EXTENDS Integers, Sequences, FiniteSets, TLC

VARIABLES
    object,        \* self.object: the implicit object (a union of boxes)
    origin,        \* self.origin
    dim,           \* self.dim
    res,           \* self.res
    value_grid,    \* self.value_grid : Index -> Float
    edge_grid,     \* self.edge_grid  : EdgeIndex -> Plane
    vertex_map,    \* self.vertex_map : VertexIndex -> index in mesh.vertices
    mesh,          \* self.mesh       : [vertices, faces]
    qefs,          \* self.qefs
    clamps,        \* self.clamps
    vertex_stack,  \* try_tesselate's local vertex_stack
    next_layer,    \* try_tesselate's local next (result of the last subsample_octtree)
    seed,          \* the RandomState of edge_grid's HashMap (fixes its iteration order)
    pc,            \* position inside tesselate / try_tesselate
    attempts,      \* number of try_tesselate calls started
    failure,       \* the assertion that failed or the panic, or NoFailure
    hit_zero,      \* the HitZero point try_tesselate returned as Err, or None
    num_solved,    \* try_tesselate's num_qefs_solved
    call           \* a single call of a table function: its arguments and its result

vars == <<object, origin, dim, res, value_grid, edge_grid, vertex_map, mesh, qefs,
          clamps, vertex_stack, next_layer, seed, pc, attempts, failure, hit_zero,
          num_solved, call>>

----------------------------------------------------------------------------
(* Bounds of the model *)

\* at most this many boxes make up the object
MaxBoxes == 2
\* HashMap seeds 0..MaxSeed
MaxSeed == 1
\* at most this many attempts of try_tesselate are followed
MaxAttempts == 3
\* edge-sets of at most this many edges are passed to get_connected_edges_from_edge_set
MaxEdges == 4
\* indexes 0..MaxIndex in every direction are passed to EdgeIndex::base
MaxIndex == 2

\* Option: None is the empty sequence, Some(x) the sequence of x
None == <<>>
Some(x) == <<x>>
Unwrap(o) == o[1]

\* no assertion has failed and nothing has panicked
NoFailure == "none"

Abs(x) == IF x < 0 THEN -x ELSE x
Max2(a, b) == IF a >= b THEN a ELSE b
Min2(a, b) == IF a <= b THEN a ELSE b
SetMin(S) == CHOOSE x \in S : \A y \in S : x <= y
SetMax(S) == CHOOSE x \in S : \A y \in S : x >= y
Range(s) == {s[i] : i \in DOMAIN s}

\* the resolution every engine of the model is constructed with
Resolution == 420

----------------------------------------------------------------------------
(* Index and point arithmetic *)

\* vertex_index::offset
offset(idx, off) == <<idx[1] + off[1], idx[2] + off[2], idx[3] + off[3]>>
\* vertex_index::neg_offset
neg_offset(idx, off) == <<idx[1] - off[1], idx[2] - off[2], idx[3] - off[3]>>

Unit(d) == [k \in 1..3 |-> IF k = d + 1 THEN 1 ELSE 0]

\* origin + res * Vector(idx)
PointOf(org, r, idx) == <<org[1] + r * idx[1], org[2] + r * idx[2], org[3] + r * idx[3]>>

\* x | (x >> s) on naturals
ShiftOr(x, s) ==
    LET RECURSIVE Shr(_, _)
        Shr(a, n) == IF n = 0 \/ a = 0 THEN a ELSE Shr(a \div 2, n - 1)
        RECURSIVE Or(_, _, _)
        Or(a, b, w) == IF a = 0 /\ b = 0 THEN 0
                       ELSE (IF a % 2 = 1 \/ b % 2 = 1 THEN w ELSE 0)
                            + Or(a \div 2, b \div 2, 2 * w)
    IN Or(x, Shr(x, s), 1)

\* pow2roundup (x >= 1; the values of the model stay far below 2^64)
pow2roundup(x) ==
    LET x0 == x - 1
        x1 == ShiftOr(x0, 1)
        x2 == ShiftOr(x1, 2)
        x3 == ShiftOr(x2, 4)
        x4 == ShiftOr(x3, 8)
        x5 == ShiftOr(x4, 16)
        x6 == ShiftOr(x5, 32)
    IN x6 + 1

----------------------------------------------------------------------------
(* The implicit object: a union of axis-aligned boxes, all with the same    *)
(* half widths, centred at points of space.  Its value is the box distance  *)
(* max_k(|p_k - c_k| - half_k), minimised over the boxes: negative inside,  *)
(* 1-Lipschitz, and exact on the integer units of the model.  An object     *)
(* without boxes is the empty field, far from every surface.                *)

EmptyFieldValue == 3000

BoxValue(p, c, half) ==
    Max2(Abs(p[1] - c[1]) - half[1],
         Max2(Abs(p[2] - c[2]) - half[2], Abs(p[3] - c[3]) - half[3]))

\* Object::approx_value
approx_value(obj, p) ==
    IF obj.centers = {} THEN EmptyFieldValue
    ELSE SetMin({BoxValue(p, c, obj.half) : c \in obj.centers})

----------------------------------------------------------------------------
(* sample_value_grid *)

\* |value| <= size * res * sqrt(3), compared on squares
\* within_sub_cube_diagonal with half the diagonal
within_half_diagonal(value, size, r) == 4 * value * value <= 3 * size * size * r * r

within_sub_cube_diagonal(value, size, r) == value * value <= 3 * size * size * r * r

\* the branch of the sub-cube with half size `size` whose origin corner has `value`
recurse_into(value, size, r) == size > 1 /\ within_sub_cube_diagonal(value, size, r)

RECURSIVE sample_sub_cubes(_, _, _, _, _, _, _, _)
\* The z,y,x loop of sample_value_grid from its k-th round on; size is the
\* halved size.  acc = [stored, err]: the indices inserted so far and
\* Some(HitZero point), if any.
sample_sub_cubes(obj, r, idx, pos, size, val, k, acc) ==
    IF k = 8 \/ acc.err # None THEN acc
    ELSE LET x == k % 2
             y == (k \div 2) % 2
             z == k \div 4
             midx == <<idx[1] + x * size, idx[2] + y * size, idx[3] + z * size>>
             mpos == <<pos[1] + x * size * r, pos[2] + y * size * r, pos[3] + z * size * r>>
             value == IF midx = idx THEN val ELSE approx_value(obj, mpos)
         IN IF value = 0 THEN [acc EXCEPT !.err = Some(mpos)]
            ELSE IF recurse_into(value, size, r)
                 THEN LET sub == sample_sub_cubes(obj, r, midx, mpos, size \div 2, value, 0,
                                                  [stored |-> {}, err |-> None])
                      IN sample_sub_cubes(obj, r, idx, pos, size, val, k + 1,
                                          [stored |-> acc.stored \cup sub.stored,
                                           err |-> sub.err])
                 ELSE sample_sub_cubes(obj, r, idx, pos, size, val, k + 1,
                                       [acc EXCEPT !.stored = @ \cup {midx}])

sample_value_grid(obj, r, idx, pos, size, val) ==
    sample_sub_cubes(obj, r, idx, pos, size \div 2, val, 0, [stored |-> {}, err |-> None])

----------------------------------------------------------------------------
(* Edges of a cell *)

\* const EDGE_OFFSET (0-based edge numbers A = 0 .. L = 11)
EDGE_OFFSET == [e \in 0..11 |->
    CASE e = 0 -> <<0, 0, 0>> [] e = 1 -> <<0, 0, 0>> [] e = 2 -> <<0, 0, 0>>
      [] e = 3 -> <<0, 1, 0>> [] e = 4 -> <<1, 0, 0>> [] e = 5 -> <<1, 0, 0>>
      [] e = 6 -> <<0, 0, 1>> [] e = 7 -> <<0, 0, 1>> [] e = 8 -> <<0, 1, 0>>
      [] e = 9 -> <<0, 1, 1>> [] e = 10 -> <<1, 0, 1>> [] e = 11 -> <<1, 1, 0>>]

\* const QUADS: [A,G,J,D], [B,E,K,H], [C,I,L,F]
QUADS == [d \in 0..2 |->
    CASE d = 0 -> <<0, 6, 9, 3>> [] d = 1 -> <<1, 4, 10, 7>> [] d = 2 -> <<2, 8, 11, 5>>]

\* Edge::base by division
edge_base_div(e) == e \div 4

\* Edge::base
edge_base(e) == e % 3

\* EdgeIndex::base
EdgeIndex_base(ei) == [edge |-> edge_base(ei.edge), index |-> offset(ei.index, EDGE_OFFSET[ei.edge])]

----------------------------------------------------------------------------
(* find_zero *)

\* const PRECISION = 0.05 = 1 / PrecisionInv
PrecisionInv == 20

\* f64::signum (the value 0 of the model is +0.0)
signum(v) == IF v < 0 THEN -1 ELSE 1

\* (a - b).min().abs().max((a - b).max())
span(a, b) ==
    LET d == <<a[1] - b[1], a[2] - b[2], a[3] - b[3]>>
    IN Max2(Abs(SetMin(Range(d))), SetMax(Range(d)))

\* below_precision without the factor PRECISION
below_resolution(distance, r) == distance < r

\* distance < PRECISION * res
below_precision(distance, r) == PrecisionInv * distance < r

\* the endpoint find_zero returns once the distance is below the precision
nearer_endpoint(a, av, b, bv) == IF Abs(bv) < Abs(av) THEN b ELSE a

\* a + (b - a) * (av.abs() / (bv - av).abs()), rounded to the unit
interpolate(a, av, b, bv) ==
    [k \in 1..3 |-> a[k] + ((b[k] - a[k]) * Abs(av)) \div Abs(bv - av)]

RECURSIVE find_zero(_, _, _, _, _, _)
\* Option<Plane>, a Plane being [p |-> point]; the normal object.normal(p) is not modelled
find_zero(obj, r, a, av, b, bv) ==
    IF signum(av) = signum(bv) THEN None
    ELSE LET distance == Min2(Min2(span(a, b), Abs(av)), Abs(bv))
         IN IF below_precision(distance, r)
            THEN Some([p |-> nearer_endpoint(a, av, b, bv)])
            ELSE LET n == interpolate(a, av, b, bv)
                     nv == approx_value(obj, n)
                 IN IF signum(av) # signum(nv)
                    THEN find_zero(obj, r, a, av, n, nv)
                    ELSE find_zero(obj, r, n, nv, b, bv)

\* adjacent_idx stepping along the next axis
adjacent_idx_next_axis(point_idx, edge) == offset(point_idx, Unit((edge + 1) % 3))

\* adjacent_idx of the edge pass: point_idx with [edge] += 1
adjacent_idx(point_idx, edge) == offset(point_idx, Unit(edge))

\* The edge-resolving pass of try_tesselate: the entries it inserts
resolved_edges(obj, org, r, vg) ==
    LET cand == {ei \in [edge : 0..2, index : DOMAIN vg] :
                    adjacent_idx(ei.index, ei.edge) \in DOMAIN vg}
        zero(ei) == find_zero(obj, r, PointOf(org, r, ei.index), vg[ei.index],
                              PointOf(org, r, adjacent_idx(ei.index, ei.edge)),
                              vg[adjacent_idx(ei.index, ei.edge)])
        keys == {ei \in cand : zero(ei) # None}
    IN [ei \in keys |-> Unwrap(zero(ei))]

\* HashMap::insert of every entry of `new` into `old`
insert_all(old, new) ==
    [k \in DOMAIN old \cup DOMAIN new |-> IF k \in DOMAIN new THEN new[k] ELSE old[k]]

----------------------------------------------------------------------------
(* Cell configurations.  The CELL_CONFIGS table is not part of the source   *)
(* file.  It is modelled from its contract: the edge-sets of a cell         *)
(* partition the crossing edges of the cell, one edge-set per connected     *)
(* surface component.  Here a component is a group of negative corners      *)
(* connected along cell edges, and its edge-set is the crossing edges that  *)
(* leave the group.  For the cell {0,3,5,6} this gives the edge-sets        *)
(* {3,4,11} and {5,6,10} that the source's test expects.                    *)

\* corner number (z << 2 | y << 1 | x) of a cell-local offset
CornerOf(o) == o[1] + 2 * o[2] + 4 * o[3]

\* the corners at offset o and one step along axis d from it
ends_of(o, d) == {CornerOf(o), CornerOf(offset(o, Unit(d)))}

\* the two corners of edge e
EdgeEnds(e) == ends_of(EDGE_OFFSET[e], e % 3)

\* the edges with exactly one negative corner
CrossingEdges(bits) == {e \in 0..11 : Cardinality(EdgeEnds(e) \cap bits) = 1}

\* corner b joins the group S along an edge with these ends
joins(ends, b, S, bits) == b \in ends /\ ends \cap S # {} /\ ends \subseteq bits

RECURSIVE CornerGroup(_, _)
RECURSIVE grow_group(_, _, _)
\* the negative corners connected to S along cell edges
CornerGroup(bits, S) ==
    grow_group(bits, S, S \cup {b \in bits : \E e \in 0..11 : joins(EdgeEnds(e), b, S, bits)})

grow_group(bits, S, T) == IF T = S THEN S ELSE CornerGroup(bits, T)

RECURSIVE GroupsFrom(_, _)
RECURSIVE group_and_rest(_, _, _)
\* the corner groups of bits, by smallest corner
GroupsFrom(bits, todo) ==
    IF todo = {} THEN <<>>
    ELSE group_and_rest(bits, todo, CornerGroup(bits, {SetMin(todo)}))

group_and_rest(bits, todo, g) == <<g>> \o GroupsFrom(bits, todo \ g)

\* the crossing edges that leave each group
edge_sets_of(bits, groups) ==
    [i \in 1..Len(groups) |-> {e \in CrossingEdges(bits) : EdgeEnds(e) \cap groups[i] # {}}]

CellConfigOf(bits) == edge_sets_of(bits, GroupsFrom(bits, bits))

\* CELL_CONFIGS[cell.as_u32()]: a sequence of edge-sets (@@ makes the table an
\* explicit function, computed once)
CELL_CONFIGS == [bits \in SUBSET (0..7) |-> CellConfigOf(bits)] @@ <<>>

\* bitset_for_cell: Some(the set of negative corners), or None where the source panics
bitset_for_cell(vg, idx) ==
    LET corners == {0, 1} \X {0, 1} \X {0, 1}
    IN IF \E o \in corners : offset(idx, o) \notin DOMAIN vg THEN None
       ELSE Some({CornerOf(o) : o \in {c \in corners : vg[offset(idx, c)] < 0}})

\* the first edge-set of cfg holding edge
first_edge_set_with(edge, cfg) ==
    LET hits == {i \in 1..Len(cfg) : edge \in cfg[i]}
    IN IF hits = {} THEN None ELSE Some(cfg[SetMin(hits)])

\* get_connected_edges: Some(the first edge-set holding edge), or None where the source panics
get_connected_edges(edge, cell) == first_edge_set_with(edge, CELL_CONFIGS[cell])

\* get_connected_edges_from_edge_set keeping the edge-sets inside edge_set
get_edge_sets_within(edge_set, cell) ==
    LET keep(es) == es \subseteq edge_set
    IN SelectSeq(CELL_CONFIGS[cell], keep)

\* get_connected_edges_from_edge_set: the result vector
get_connected_edges_from_edge_set(edge_set, cell) ==
    LET keep(es) == es \cap edge_set # {}
    IN SelectSeq(CELL_CONFIGS[cell], keep)

\* the debug assertion of get_connected_edges_from_edge_set
connected_edges_cover(edge_set, result) ==
    (UNION Range(result)) \cap edge_set = edge_set

\* vertex_index::EDGES_ON_FACE, face = 2 * axis + side: the edges of that face
EDGES_ON_FACE(face) ==
    {e \in 0..11 : e % 3 # face \div 2 /\ EDGE_OFFSET[e][(face \div 2) + 1] = face % 2}

\* the number of the edge with direction d and offset o
EdgeWith(d, o) == CHOOSE e \in 0..11 : e % 3 = d /\ EDGE_OFFSET[e] = o

\* the same physical edge seen from the cell across face
across(e, face) ==
    EdgeWith(e % 3, [EDGE_OFFSET[e] EXCEPT ![(face \div 2) + 1] = 1 - (face % 2)])

\* the neighbour of vi across face for the edges of vi on that face
neighbor_sharing(vi, face, shared) ==
    IF shared = {} THEN None
    ELSE Some([edges |-> {across(e, face) : e \in shared},
               index |-> [vi.index EXCEPT ![(face \div 2) + 1] =
                                              IF face % 2 = 1 THEN @ + 1 ELSE @ - 1]])

\* VertexIndex::neighbor: Some(the cell across face with the shared edges), or None.
\* Face 2k is the low side of axis k, face 2k+1 the high side.
VertexIndex_neighbor(vi, face) == neighbor_sharing(vi, face, vi.edges \cap EDGES_ON_FACE(face))

----------------------------------------------------------------------------
(* Iteration order of edge_grid.  A std HashMap iterates in an order fixed  *)
(* by its RandomState, which is drawn when the map is constructed; the      *)
(* model draws a seed in Init and derives a permutation of the keys from    *)
(* it: the keys sorted by number, rotated by seed \div 2 and reversed for   *)
(* odd seeds.                                                               *)

KeyNumber(ei) == ei.edge + 3 * (ei.index[1] + 64 * (ei.index[2] + 64 * ei.index[3]))

RECURSIVE SortedKeys(_)
SortedKeys(keys) ==
    IF keys = {} THEN <<>>
    ELSE LET k == CHOOSE x \in keys : \A y \in keys : KeyNumber(x) <= KeyNumber(y)
         IN <<k>> \o SortedKeys(keys \ {k})

Reverse(s) == [i \in 1..Len(s) |-> s[Len(s) + 1 - i]]
Rotate(s, n) == [i \in 1..Len(s) |-> s[((i - 1 + n) % Len(s)) + 1]]

\* the permutation of the sorted keys that seed sd yields
permuted(sorted, sd) ==
    IF sorted = <<>> THEN sorted
    ELSE IF sd % 2 = 1 THEN Reverse(Rotate(sorted, sd \div 2))
    ELSE Rotate(sorted, sd \div 2)

\* edge_grid.keys(), as the sequence the iterator yields
edge_grid_keys(eg, sd) == permuted(SortedKeys(DOMAIN eg), sd)

----------------------------------------------------------------------------
(* Leaf vertices.  A Vertex is [index, qef, neighbors, parent, children];   *)
(* neighbors maps the faces 0..5 to sets (the source's vectors are kept     *)
(* duplicate free by a contains test before every push), children is a set  *)
(* of indices into the layer below, and indices into a layer are 0-based    *)
(* as in the source.  A Qef is [planes, error]: the number of tangent       *)
(* planes merged into it, and the error: "NaN" until it is solved.          *)

At(layer, i) == layer[i + 1]

\* Qef::new(planes)
Qef_new(planes) == [planes |-> Cardinality(planes), error |-> "NaN"]

NoNeighbors == [f \in 0..5 |-> {}]

\* the result of a step that panicked
failed(acc, message) == [acc EXCEPT !.fail = message]

\* VertexIndex { edges: edge_set, index: idx } for the edge-set found
vertex_index_with(idx, found) ==
    IF found = None THEN [fail |-> "did not find edge_set", vertex_index |-> None]
    ELSE [fail |-> NoFailure, vertex_index |-> Some([edges |-> Unwrap(found), index |-> idx])]

vertex_index_in(edge, idx, cell) ==
    IF cell = None THEN [fail |-> "did not find value_grid", vertex_index |-> None]
    ELSE vertex_index_with(idx, get_connected_edges(edge, Unwrap(cell)))

\* get_connected_edges(edge, self.bitset_for_cell(idx)) and the VertexIndex made of
\* it, in add_vertices_for_minimal_egde and in lookup_cell_point: [fail, vertex_index]
vertex_index_for(vg, edge, idx) == vertex_index_in(edge, idx, bitset_for_cell(vg, idx))

\* the VertexIndex values of the edge-sets found in the neighbour cell
neighbors_of_sets(ei, sets) ==
    IF ~connected_edges_cover(ei.edges, sets) THEN None
    ELSE Some({[edges |-> es, index |-> ei.index] : es \in Range(sets)})

neighbors_in_cell(ei, cell) ==
    IF cell = None THEN None
    ELSE neighbors_of_sets(ei, get_connected_edges_from_edge_set(ei.edges, Unwrap(cell)))

\* the closure of add_vertices_for_minimal_egde, mapped over neighbor(face):
\* Some(the neighbours across the face), or None where bitset_for_cell panics
\* or the assertion of get_connected_edges_from_edge_set fails
neighbors_across(vg, nb) ==
    IF nb = None THEN Some({})
    ELSE neighbors_in_cell(Unwrap(nb), bitset_for_cell(vg, Unwrap(nb).index))

all_faces(per_face) ==
    IF \E f \in 0..5 : per_face[f] = None THEN None
    ELSE Some([f \in 0..5 |-> Unwrap(per_face[f])])

\* the neighbors array of a new leaf, as VertexIndex values: Some(it) or None
leaf_neighbors(vg, vi) ==
    all_faces([f \in 0..5 |-> neighbors_across(vg, VertexIndex_neighbor(vi, f))])

\* get_edge_tangent_plane finds every edge of the edge-set in the edge grid
tangent_planes_found(eg, edge_set, idx) ==
    \A e \in edge_set : EdgeIndex_base([edge |-> e, index |-> idx]) \in DOMAIN eg

\* the closure of or_insert_with: the new leaf is pushed and gets the next index
push_leaf(eg, vertex_index, neighbors, acc) ==
    IF neighbors = None THEN failed(acc, "neighbor cell not resolved")
    ELSE IF ~tangent_planes_found(eg, vertex_index.edges, vertex_index.index)
         THEN failed(acc, "could not find edge_point")
    ELSE [vertices |-> Append(acc.vertices,
                              [index |-> vertex_index.index,
                               qef |-> Qef_new(vertex_index.edges),
                               neighbors |-> Unwrap(neighbors),
                               parent |-> None,
                               children |-> {}]),
          index_map |-> acc.index_map @@ (vertex_index :> Len(acc.vertices)),
          fail |-> NoFailure]

\* index_map.entry(vertex_index).or_insert_with(..)
entry_or_insert(vg, eg, vertex_index, acc) ==
    IF vertex_index \in DOMAIN acc.index_map THEN acc
    ELSE push_leaf(eg, vertex_index, leaf_neighbors(vg, vertex_index), acc)

add_vertex(vg, eg, looked, acc) ==
    IF looked.fail # NoFailure THEN failed(acc, looked.fail)
    ELSE entry_or_insert(vg, eg, Unwrap(looked.vertex_index), acc)

\* one round of the loop of add_vertices_for_minimal_egde
add_vertex_for_quad_egde(vg, eg, index, quad_egde, acc) ==
    add_vertex(vg, eg,
               vertex_index_for(vg, quad_egde, neg_offset(index, EDGE_OFFSET[quad_egde])),
               acc)

RECURSIVE add_vertices_for_minimal_egde(_, _, _, _, _)
\* the quad edges q..4 of edge_index; acc = [vertices, index_map, fail]
add_vertices_for_minimal_egde(vg, eg, edge_index, q, acc) ==
    IF q > 4 \/ acc.fail # NoFailure THEN acc
    ELSE add_vertices_for_minimal_egde(vg, eg, edge_index, q + 1,
             add_vertex_for_quad_egde(vg, eg, edge_index.index, QUADS[edge_index.edge][q],
                                      acc))

RECURSIVE leaves_for_keys(_, _, _, _, _)
leaves_for_keys(vg, eg, keys, k, acc) ==
    IF k > Len(keys) \/ acc.fail # NoFailure THEN acc
    ELSE leaves_for_keys(vg, eg, keys, k + 1,
                         add_vertices_for_minimal_egde(vg, eg, keys[k], 1, acc))

\* the neighbour symmetry that generate_leaf_vertices asserts, and P4 of every layer
symmetric_neighbors(layer) ==
    \A vi \in 0..(Len(layer) - 1) : \A np \in 0..5 : \A i \in At(layer, vi).neighbors[np] :
        /\ i \in 0..(Len(layer) - 1)
        /\ vi \in At(layer, i).neighbors[IF np % 2 = 0 THEN np + 1 ELSE np - 1]

\* the debug assertions at the end of generate_leaf_vertices
asserted_leaves(layer) ==
    IF ~symmetric_neighbors(layer)
    THEN [vertices |-> <<>>, fail |-> "leaf neighbors not symmetric"]
    ELSE [vertices |-> layer, fail |-> NoFailure]

\* every neighbour of a leaf is a leaf
neighbors_known(built) ==
    \A i \in DOMAIN built.vertices : \A f \in 0..5 :
        built.vertices[i].neighbors[f] \subseteq DOMAIN built.index_map

\* the neighbours as indices into the layer
indexed_neighbors(built) ==
    [i \in DOMAIN built.vertices |->
        [built.vertices[i] EXCEPT
            !.neighbors = [f \in 0..5 |-> {built.index_map[n] : n \in @[f]}]]]

leaves_of(built) ==
    IF built.fail # NoFailure THEN [vertices |-> <<>>, fail |-> built.fail]
    ELSE IF ~neighbors_known(built) THEN [vertices |-> <<>>, fail |-> "neighbor is no leaf"]
    ELSE asserted_leaves(indexed_neighbors(built))

\* generate_leaf_vertices: [vertices, fail]
generate_leaf_vertices(vg, eg, sd) ==
    leaves_of(leaves_for_keys(vg, eg, edge_grid_keys(eg, sd), 1,
                              [vertices |-> <<>>, index_map |-> <<>>, fail |-> NoFailure]))

----------------------------------------------------------------------------
(* Octree simplification *)

\* half_index
half_index(input) == <<input[1] \div 2, input[2] \div 2, input[3] \div 2>>

AllNeighbors(v) == UNION {v.neighbors[f] : f \in 0..5}

RECURSIVE grow_in_subcell(_, _, _)
\* the set add_connected_vertices_in_subcell leaves in neigbors: everything
\* reached from the set through neighbors whose half index is parent_index
grow_in_subcell(base, parent_index, set) ==
    LET more == {vi \in UNION {AllNeighbors(At(base, s)) : s \in set} :
                    half_index(At(base, vi).index) = parent_index}
    IN IF more \subseteq set THEN set
       ELSE grow_in_subcell(base, parent_index, set \cup more)

\* neighbor_set of subsample_octtree for vertex i
add_connected_vertices_in_subcell(base, i) ==
    grow_in_subcell(base, half_index(At(base, i).index), {i})

\* Qef::merge
Qef_merge(parent_qef, child_qef) ==
    [parent_qef EXCEPT !.planes = @ + child_qef.planes]

\* relevant_neighbor without the parity of the child's index
relevant_neighbor_low_side(child, d) == d * 2

\* dim * 2 + (child.index[dim] & 1)
relevant_neighbor(child, d) == d * 2 + (child.index[d + 1] % 2)

\* add_child_to_parent
add_child_to_parent(child, parent) ==
    [parent EXCEPT
        !.qef = Qef_merge(@, child.qef),
        !.neighbors = [f \in 0..5 |->
                          IF \E d \in 0..2 : relevant_neighbor(child, d) = f
                          THEN @[f] \cup child.neighbors[f] ELSE @[f]]]

RECURSIVE add_children(_, _, _)
add_children(base, todo, parent) ==
    IF todo = {} THEN parent
    ELSE LET c == SetMin(todo)
         IN add_children(base, todo \ {c},
                         add_child_to_parent(At(base, c), [parent EXCEPT !.children = @ \cup {c}]))

\* needs_parent without the test of the parent field
needs_parent_always(vertex) == TRUE

\* the condition under which subsample_octtree builds a parent for vertex
needs_parent(vertex) == vertex.parent = None

RECURSIVE build_parents(_, _)
\* the first loop of subsample_octtree from vertex i on; st = [base, result, fail]
build_parents(i, st) ==
    IF i >= Len(st.base) \/ st.fail # NoFailure THEN st
    ELSE IF ~needs_parent(At(st.base, i)) THEN build_parents(i + 1, st)
    ELSE LET neighbor_set == add_connected_vertices_in_subcell(st.base, i)
             fresh == [index |-> half_index(At(st.base, i).index),
                       qef |-> Qef_new({}),
                       neighbors |-> NoNeighbors,
                       parent |-> None,
                       children |-> {}]
             parent == add_children(st.base, neighbor_set, fresh)
             marked == [k \in DOMAIN st.base |->
                          IF (k - 1) \in neighbor_set
                          THEN [st.base[k] EXCEPT !.parent = Some(Len(st.result))]
                          ELSE st.base[k]]
         IN IF \E c \in neighbor_set : At(st.base, c).parent # None
            THEN [st EXCEPT !.fail = "child already has parent"]
            ELSE build_parents(i + 1, [base |-> marked,
                                       result |-> Append(st.result, parent),
                                       fail |-> NoFailure])

\* the second loop of subsample_octtree: neighbours become their parents
with_parent_neighbors(built) ==
    IF built.fail # NoFailure THEN built
    ELSE IF \E k \in DOMAIN built.result : \E f \in 0..5 :
                \E n \in built.result[k].neighbors[f] : At(built.base, n).parent = None
         THEN failed(built, "neighbor without parent")
    ELSE [built EXCEPT
             !.result = [k \in DOMAIN @ |->
                            [@[k] EXCEPT
                                !.neighbors = [f \in 0..5 |->
                                    {Unwrap(At(built.base, n).parent) : n \in @[f]}]]]]

\* subsample_octtree: [base, result, fail]; base is the input layer with the
\* parent fields the call has set
subsample_octtree(base) ==
    with_parent_neighbors(build_parents(0, [base |-> base, result |-> <<>>,
                                            fail |-> NoFailure]))

\* same_length comparing the wrong way
same_length_longer(next, top) == Len(next) > Len(top)

\* the test that ends the simplification loop of try_tesselate
same_length(next, top) == Len(next) = Len(top)

----------------------------------------------------------------------------
(* Hierarchical QEF solve.  Qef::solve is not part of the source file; its  *)
(* outcome is whether |error| exceeds the threshold, given by a pattern:    *)
(* rule "all" / "none", or the clusters of even / odd position in a layer.  *)

ErrorRules == {"all", "none", "even", "odd"}

\* error.abs() > error_threshold for the cluster at index_in_layer
exceeds_threshold(rule, index_in_layer) ==
    \/ rule = "all"
    \/ rule = "even" /\ index_in_layer % 2 = 0
    \/ rule = "odd" /\ index_in_layer % 2 = 1

\* the assertion of recursively_solve_qefs
qef_unsolved(qef) == qef.error = "NaN"

\* descend_into with the threshold test turned around
descend_into_small_error(vertex, large) == IF large THEN {} ELSE vertex.children

\* the children recursively_solve_qefs descends into
descend_into(vertex, large) == IF large THEN vertex.children ELSE {}

RECURSIVE recursively_solve_qefs(_, _, _, _)
RECURSIVE solve_children(_, _, _, _)
\* st = [stack, n, fail]; depth is the number of layers of the slice
recursively_solve_qefs(st, depth, rule, index_in_layer) ==
    IF st.fail # NoFailure THEN st
    ELSE LET vertex == At(st.stack[depth], index_in_layer)
             large == exceeds_threshold(rule, index_in_layer)
             solved == [st EXCEPT
                           !.stack[depth][index_in_layer + 1].qef.error =
                               IF large THEN "large" ELSE "small",
                           !.n = @ + 1]
         IN IF ~qef_unsolved(vertex.qef) THEN [st EXCEPT !.fail = "found solved qef"]
            ELSE solve_children(solved, depth - 1, rule, descend_into(vertex, large))

solve_children(st, depth, rule, todo) ==
    IF todo = {} THEN st
    ELSE LET c == SetMin(todo)
         IN solve_children(recursively_solve_qefs(st, depth, rule, c), depth, rule, todo \ {c})

RECURSIVE solve_qefs_from_layers(_, _, _)
solve_qefs_from_layers(st, depth, rule) ==
    IF depth = 0 THEN st
    ELSE solve_qefs_from_layers(
             solve_children(st, depth, rule, 0..(Len(st.stack[depth]) - 1)),
             depth - 1, rule)

\* solve_qefs starting at every layer of the stack, not only at the top
solve_qefs_every_layer(stack, rule) ==
    solve_qefs_from_layers([stack |-> stack, n |-> 0, fail |-> NoFailure], Len(stack), rule)

\* solve_qefs: [stack, n, fail]
solve_qefs(stack, rule) ==
    IF stack = <<>> THEN [stack |-> stack, n |-> 0, fail |-> NoFailure]
    ELSE solve_children([stack |-> stack, n |-> 0, fail |-> NoFailure], Len(stack), rule,
                        0..(Len(stack[Len(stack)]) - 1))

----------------------------------------------------------------------------
(* Quad emission.  compute_cell_point solves a Qef that is not part of the  *)
(* source file; the model keeps, for each mesh vertex, the VertexIndex it   *)
(* was computed for and whether the solution was clamped.  Whether a        *)
(* solution lies in its cell is given by a rule: "in" / "out" for all, or   *)
(* "mixed": the vertices of odd mesh position are clamped.                  *)

ClampRules == {"in", "out", "mixed"}

\* !is_in_cell(idx, qef_solution) for the vertex that gets mesh position n
solution_clamped(rule, n) == rule = "out" \/ (rule = "mixed" /\ n % 2 = 1)

\* compute_cell_point and the bookkeeping of lookup_cell_point for a new vertex
push_cell_point(vertex_index, result, clamped, st) ==
    [st EXCEPT
        !.mesh.vertices = Append(@, [of |-> vertex_index, clamped |-> clamped]),
        !.vertex_map = @ @@ (vertex_index :> result),
        !.qefs = IF clamped THEN @ ELSE @ + 1,
        !.clamps = IF clamped THEN @ + 1 ELSE @,
        !.p = Append(@, result)]

\* cell_point without the lookup in vertex_map
cell_point_computed_anew(eg, rule, vertex_index, st) ==
    IF ~tangent_planes_found(eg, vertex_index.edges, vertex_index.index)
    THEN failed(st, "could not find edge_point")
    ELSE push_cell_point(vertex_index, Len(st.mesh.vertices),
                         solution_clamped(rule, Len(st.mesh.vertices)), st)

\* lookup_cell_point once the VertexIndex is known: the memoised position, or a new vertex
cell_point(eg, rule, vertex_index, st) ==
    IF vertex_index \in DOMAIN st.vertex_map
    THEN [st EXCEPT !.p = Append(@, st.vertex_map[vertex_index])]
    ELSE IF ~tangent_planes_found(eg, vertex_index.edges, vertex_index.index)
         THEN failed(st, "could not find edge_point")
    ELSE push_cell_point(vertex_index, Len(st.mesh.vertices),
                         solution_clamped(rule, Len(st.mesh.vertices)), st)

looked_up(eg, rule, looked, st) ==
    IF looked.fail # NoFailure THEN failed(st, looked.fail)
    ELSE cell_point(eg, rule, Unwrap(looked.vertex_index), st)

\* lookup_cell_point; st = [mesh, vertex_map, qefs, clamps, fail, p]: it
\* appends the mesh position to p
lookup_cell_point(vg, eg, rule, edge, idx, st) ==
    IF st.fail # NoFailure THEN st
    ELSE looked_up(eg, rule, vertex_index_for(vg, edge, idx), st)

\* reversed_quad with the sign test turned around
reversed_quad_positive(vg, edge_index) ==
    edge_index.index \in DOMAIN vg /\ vg[edge_index.index] > 0

\* the reversal of compute_quad: value_grid[edge_index.index] is negative
reversed_quad(vg, edge_index) ==
    edge_index.index \in DOMAIN vg /\ vg[edge_index.index] < 0

\* the two faces compute_quad pushes for the looked up points p
quad_faces(p, rev) ==
    LET q == IF rev THEN Reverse(p) ELSE p
    IN << <<q[1], q[2], q[3]>>, <<q[3], q[4], q[1]>> >>

\* the lookup of the q-th quad edge of compute_quad
quad_point(vg, eg, rule, index, quad_egde, st) ==
    lookup_cell_point(vg, eg, rule, quad_egde, neg_offset(index, EDGE_OFFSET[quad_egde]), st)

RECURSIVE quad_points(_, _, _, _, _, _)
quad_points(vg, eg, rule, edge_index, q, st) ==
    IF q > 4 THEN st
    ELSE quad_points(vg, eg, rule, edge_index, q + 1,
                     quad_point(vg, eg, rule, edge_index.index, QUADS[edge_index.edge][q], st))

\* the two add_face calls of compute_quad
push_quad(vg, edge_index, looked) ==
    IF looked.fail # NoFailure THEN looked
    ELSE [looked EXCEPT
             !.mesh.faces = @ \o quad_faces(looked.p, reversed_quad(vg, edge_index))]

\* compute_quad
compute_quad(vg, eg, rule, edge_index, st) ==
    IF st.fail # NoFailure THEN st
    ELSE IF ~(\A k \in 1..3 : edge_index.index[k] > 0)
         THEN failed(st, "edge index not positive")
    ELSE push_quad(vg, edge_index,
                   quad_points(vg, eg, rule, edge_index, 1, [st EXCEPT !.p = <<>>]))

RECURSIVE compute_quads(_, _, _, _, _, _)
\* the loop of try_tesselate over edge_grid.keys()
compute_quads(vg, eg, rule, keys, k, st) ==
    IF k > Len(keys) THEN st
    ELSE compute_quads(vg, eg, rule, keys, k + 1, compute_quad(vg, eg, rule, keys[k], st))

----------------------------------------------------------------------------
(* The engines of the model.  The grid has 7 x 6 x 6 cells, sampled on a    *)
(* cube of pow2roundup(7) = 8 corners a side.  The object is a union of at  *)
(* most MaxBoxes boxes of one shape, centred at grid corners that leave the *)
(* margin around the surface that the dilated bounding box of               *)
(* DualMarchingCubes::new gives.  Shapes (half widths, res = 420):          *)
(*   mid   126 x 126 x 126   one negative corner per box                    *)
(*   small  10 x  10 x  10   corner values below PRECISION * res            *)
(*   skew  200 x 126 x  60   the field is not linear along an edge          *)
(*   wide  546 x 126 x 126   three negative corners in a row                *)
(*   hitx  420 x 126 x 126   zero at grid corners until the origin moves    *)
(*   hity  126 x 420 x 126   zero at grid corners wherever origin.x is      *)

Dim == <<7, 6, 6>>

Corner(x, y, z) == <<x * Resolution, y * Resolution, z * Resolution>>

MidCorners == {Corner(2, 2, 2), Corner(3, 2, 2), Corner(3, 3, 2), Corner(4, 3, 3)}
SmallCorners == {Corner(2, 2, 2), Corner(3, 3, 3)}
SkewCorners == {Corner(2, 3, 2), Corner(3, 3, 2)}
WideCorners == {Corner(3, 2, 2), Corner(4, 3, 3)}
HitCorners == {Corner(2, 2, 2), Corner(3, 2, 3)}

Boxes(corners, lo, half) ==
    {[centers |-> C, half |-> half] :
        C \in {D \in SUBSET corners : Cardinality(D) >= lo /\ Cardinality(D) <= MaxBoxes}}

Objects ==
    Boxes(MidCorners, 0, <<126, 126, 126>>)
    \cup Boxes(SmallCorners, 1, <<10, 10, 10>>)
    \cup Boxes(SkewCorners, 1, <<200, 126, 60>>)
    \cup Boxes(WideCorners, 1, <<546, 126, 126>>)
    \cup Boxes(HitCorners, 1, <<Resolution, 126, 126>>)
    \cup {[centers |-> {Corner(3, 3, 3)}, half |-> <<126, Resolution, 126>>]}

EmptyMesh == [vertices |-> <<>>, faces |-> <<>>]

\* DualMarchingCubes::new
Init ==
    /\ object \in Objects
    /\ origin = <<0, 0, 0>>
    /\ dim = Dim
    /\ res = Resolution
    /\ value_grid = <<>>
    /\ edge_grid = <<>>
    /\ vertex_map = <<>>
    /\ mesh = EmptyMesh
    /\ qefs = 0
    /\ clamps = 0
    /\ vertex_stack = <<>>
    /\ next_layer = <<>>
    /\ seed \in 0..MaxSeed
    /\ pc = "start"
    /\ attempts = 0
    /\ failure = NoFailure
    /\ hit_zero = None
    /\ num_solved = 0
    /\ call = [op |-> "none"]

\* try_tesselate, up to the return of sample_value_grid
Sample ==
    /\ pc = "start"
    /\ \E sampled \in {sample_value_grid(object, res, <<0, 0, 0>>, origin,
                                         pow2roundup(Max2(dim[1], Max2(dim[2], dim[3]))),
                                         approx_value(object, origin))} :
          /\ value_grid' = insert_all(value_grid,
                 [i \in sampled.stored |-> approx_value(object, PointOf(origin, res, i))])
          /\ hit_zero' = sampled.err
          /\ pc' = IF sampled.err = None THEN "edges" ELSE "hitzero"
    /\ attempts' = attempts + 1
    /\ UNCHANGED <<call, object, origin, dim, res, edge_grid, vertex_map, mesh, qefs, clamps,
                   vertex_stack, next_layer, seed, failure, num_solved>>

\* rand::random::<Float>().abs(), in halves
RandomHalves == {0, 1}

\* padding by a whole cell
padding_whole_cell(r, halves) == r

\* self.res / (10. + random), for random = halves / 2
padding(r, halves) == (2 * r) \div (20 + halves)

\* the Err arm without self.value_grid.clear()
Retry_keeping_value_grid ==
    /\ pc = "hitzero"
    /\ attempts < MaxAttempts
    /\ \E halves \in RandomHalves :
           origin' = [origin EXCEPT ![1] = @ - padding(res, halves)]
    /\ mesh' = [mesh EXCEPT !.vertices = <<>>, !.faces = <<>>]
    /\ qefs' = 0
    /\ clamps' = 0
    /\ hit_zero' = None
    /\ pc' = "start"
    /\ UNCHANGED <<value_grid, call, object, dim, res, edge_grid, vertex_map, vertex_stack, next_layer, seed,
                   attempts, failure, num_solved>>

\* tesselate, the Err arm
Retry ==
    /\ pc = "hitzero"
    /\ attempts < MaxAttempts
    /\ \E halves \in RandomHalves :
           origin' = [origin EXCEPT ![1] = @ - padding(res, halves)]
    /\ value_grid' = <<>>
    /\ mesh' = [mesh EXCEPT !.vertices = <<>>, !.faces = <<>>]
    /\ qefs' = 0
    /\ clamps' = 0
    /\ hit_zero' = None
    /\ pc' = "start"
    /\ UNCHANGED <<call, object, dim, res, edge_grid, vertex_map, vertex_stack, next_layer, seed,
                   attempts, failure, num_solved>>

\* try_tesselate: crossing positions of edges into edge_grid
ResolveEdges ==
    /\ pc = "edges"
    /\ edge_grid' = insert_all(edge_grid, resolved_edges(object, origin, res, value_grid))
    /\ pc' = "leaves"
    /\ UNCHANGED <<call, object, origin, dim, res, value_grid, vertex_map, mesh, qefs, clamps,
                   vertex_stack, next_layer, seed, attempts, failure, hit_zero, num_solved>>

\* try_tesselate: vertex_stack.push(self.generate_leaf_vertices())
GenerateLeaves ==
    /\ pc = "leaves"
    /\ \E leaves \in {generate_leaf_vertices(value_grid, edge_grid, seed)} :
          /\ vertex_stack' = IF leaves.fail = NoFailure THEN <<leaves.vertices>> ELSE <<>>
          /\ failure' = leaves.fail
          /\ pc' = IF leaves.fail = NoFailure THEN "subsample" ELSE "panic"
    /\ UNCHANGED <<call, object, origin, dim, res, value_grid, edge_grid, vertex_map, mesh, qefs,
                   clamps, next_layer, seed, attempts, hit_zero, num_solved>>

\* try_tesselate: one round of the simplification loop
Subsample ==
    /\ pc = "subsample"
    /\ \E sub \in {subsample_octtree(vertex_stack[Len(vertex_stack)])} :
          /\ next_layer' = sub.result
          /\ failure' = sub.fail
          /\ pc' = IF sub.fail # NoFailure THEN "panic"
                   ELSE IF same_length(sub.result, sub.base) THEN "solve"
                   ELSE "subsample"
          /\ vertex_stack' =
                 IF sub.fail = NoFailure /\ ~same_length(sub.result, sub.base)
                 THEN Append([vertex_stack EXCEPT ![Len(vertex_stack)] = sub.base],
                             sub.result)
                 ELSE [vertex_stack EXCEPT ![Len(vertex_stack)] = sub.base]
    /\ UNCHANGED <<call, object, origin, dim, res, value_grid, edge_grid, vertex_map, mesh, qefs,
                   clamps, seed, attempts, hit_zero, num_solved>>

\* try_tesselate: solve_qefs(&vertex_stack, self.res)
SolveQefs ==
    /\ pc = "solve"
    /\ \E rule \in ErrorRules : \E solved \in {solve_qefs(vertex_stack, rule)} :
          /\ vertex_stack' = solved.stack
          /\ num_solved' = solved.n
          /\ failure' = solved.fail
          /\ pc' = IF solved.fail = NoFailure THEN "quads" ELSE "panic"
    /\ UNCHANGED <<call, object, origin, dim, res, value_grid, edge_grid, vertex_map, mesh, qefs,
                   clamps, next_layer, seed, attempts, hit_zero>>

\* try_tesselate: compute_quad of every key of edge_grid, and the return
ComputeQuads ==
    /\ pc = "quads"
    /\ \E rule \in ClampRules :
       \E st \in {compute_quads(value_grid, edge_grid, rule,
                                edge_grid_keys(edge_grid, seed), 1,
                                [mesh |-> mesh, vertex_map |-> vertex_map, qefs |-> qefs,
                                 clamps |-> clamps, fail |-> NoFailure, p |-> <<>>])} :
          /\ mesh' = st.mesh
          /\ vertex_map' = st.vertex_map
          /\ qefs' = st.qefs
          /\ clamps' = st.clamps
          /\ failure' = st.fail
          /\ pc' = IF st.fail = NoFailure THEN "done" ELSE "panic"
    /\ UNCHANGED <<call, object, origin, dim, res, value_grid, edge_grid, vertex_stack,
                   next_layer, seed, attempts, hit_zero, num_solved>>

Next ==
    \/ Sample
    \/ Retry
    \/ ResolveEdges
    \/ GenerateLeaves
    \/ Subsample
    \/ SolveQefs
    \/ ComputeQuads

Spec == Init /\ [][Next]_vars

----------------------------------------------------------------------------
(* Single calls of the table functions, on an engine that stays as          *)
(* constructed.                                                             *)

engine == <<object, origin, dim, res, value_grid, edge_grid, vertex_map, mesh, qefs,
            clamps, vertex_stack, next_layer, seed, pc, attempts, failure, hit_zero,
            num_solved>>

EdgeSets == {es \in SUBSET (0..11) : Cardinality(es) <= MaxEdges}

Indexes == (0..MaxIndex) \X (0..MaxIndex) \X (0..MaxIndex)

TableInit == Init /\ object.centers = {} /\ object.half = <<126, 126, 126>> /\ seed = 0

\* get_connected_edges_from_edge_set(edge_set, cell), with its debug assertion
ConnectedEdges ==
    /\ call.op = "none"
    /\ \E cell \in SUBSET (0..7) : \E edge_set \in EdgeSets :
       \E result \in {get_connected_edges_from_edge_set(edge_set, cell)} :
          call' = [op |-> "connected_edges", cell |-> cell, edge_set |-> edge_set,
                   result |-> result,
                   asserted |-> connected_edges_cover(edge_set, result)]
    /\ UNCHANGED engine

\* EdgeIndex { edge, index }.base()
Base ==
    /\ call.op = "none"
    /\ \E e \in 0..11 : \E i \in Indexes :
          call' = [op |-> "base", edge |-> e, index |-> i,
                   edge_base |-> edge_base(e),
                   result |-> EdgeIndex_base([edge |-> e, index |-> i])]
    /\ UNCHANGED engine

\* the four cells of add_vertices_for_minimal_egde / compute_quad for the
\* canonical edge (d, c), and the canonical form of the quad edge in each
QuadCells ==
    /\ call.op = "none"
    /\ \E d \in 0..2 : \E c \in Indexes :
       \E cells \in {[j \in 1..4 |-> neg_offset(c, EDGE_OFFSET[QUADS[d][j]])]} :
          call' = [op |-> "quad_cells", edge |-> d, index |-> c, cells |-> cells,
                   result |-> [j \in 1..4 |->
                                  EdgeIndex_base([edge |-> QUADS[d][j], index |-> cells[j]])]]
    /\ UNCHANGED engine

TableNext ==
    \/ ConnectedEdges
    \/ Base
    \/ QuadCells

TableSpec == TableInit /\ [][TableNext]_vars

----------------------------------------------------------------------------
(* Properties *)

\* the layers subsample_octtree has been called on
InputLayers ==
    {l \in 1..Len(vertex_stack) : l < Len(vertex_stack) \/ pc \in {"solve", "quads", "done"}}

\* the layer subsample_octtree returned for input layer l
OutputOf(l) == IF l < Len(vertex_stack) THEN vertex_stack[l + 1] ELSE next_layer

ChildrenOf(layer) == UNION {layer[p].children : p \in DOMAIN layer}

RECURSIVE CeilLog2(_)
CeilLog2(n) == IF n <= 1 THEN 0 ELSE 1 + CeilLog2((n + 1) \div 2)

MaxDim == Max2(dim[1], Max2(dim[2], dim[3]))

\* C1: neighbour symmetry holds at every layer: in every layer of the vertex
\* stack and in the layer the last subsample_octtree returned (pushed or
\* dropped), if u is in v.neighbors[2k+b] then v is in u.neighbors[2k+(1-b)].
C1_NeighbourSymmetry ==
    /\ \A l \in DOMAIN vertex_stack : symmetric_neighbors(vertex_stack[l])
    /\ symmetric_neighbors(next_layer)

\* C1: a layer made by subsample_octtree in which some cluster has a neighbour
C1_Witness ==
    /\ Len(vertex_stack) >= 2
    /\ \E v \in DOMAIN next_layer : \E f \in 0..5 : next_layer[v].neighbors[f] # {}

\* C2: parent uniqueness: after every call of subsample_octtree each input
\* cluster has a parent that lists it as a child, the children sets of the
\* parents are pairwise disjoint and cover the input layer, every child's
\* half index is its parent's index, and neither assertion about parents fails.
C2_ParentUniqueness ==
    /\ failure \notin {"child already has parent", "neighbor without parent"}
    /\ \A l \in InputLayers :
          /\ \A i \in 0..(Len(vertex_stack[l]) - 1) :
                /\ At(vertex_stack[l], i).parent # None
                /\ Unwrap(At(vertex_stack[l], i).parent) \in 0..(Len(OutputOf(l)) - 1)
                /\ i \in At(OutputOf(l), Unwrap(At(vertex_stack[l], i).parent)).children
          /\ \A p, q \in DOMAIN OutputOf(l) :
                p # q => OutputOf(l)[p].children \cap OutputOf(l)[q].children = {}
          /\ ChildrenOf(OutputOf(l)) = 0..(Len(vertex_stack[l]) - 1)
          /\ \A p \in DOMAIN OutputOf(l) : \A c \in OutputOf(l)[p].children :
                half_index(At(vertex_stack[l], c).index) = OutputOf(l)[p].index

\* C2: subsample_octtree has merged several clusters into one parent
C2_Witness ==
    \E l \in InputLayers : \E p \in DOMAIN OutputOf(l) :
        Cardinality(OutputOf(l)[p].children) >= 2

\* C3: the simplification loop halts: every layer of the vertex stack is
\* strictly shorter than the one below it, the loop has stopped exactly when
\* subsample_octtree returned a layer as long as the top layer, and the stack
\* holds at most ceil(log2(max dim)) + 1 layers.
C3_Termination ==
    /\ \A l \in 2..Len(vertex_stack) : Len(vertex_stack[l]) < Len(vertex_stack[l - 1])
    /\ pc \in {"solve", "quads", "done"} =>
          Len(next_layer) = Len(vertex_stack[Len(vertex_stack)])
    /\ (pc = "subsample" /\ Len(vertex_stack) >= 2) =>
          Len(next_layer) = Len(vertex_stack[Len(vertex_stack)])
    /\ Len(vertex_stack) <= CeilLog2(MaxDim) + 1

\* C3: a finished run whose stack has as many layers as the bound allows
C3_Witness == pc = "done" /\ Len(vertex_stack) = CeilLog2(MaxDim) + 1

\* the clusters of the stack whose QEF has been solved
SolvedQefs ==
    UNION {{<<l, i>> : i \in {j \in 0..(Len(vertex_stack[l]) - 1) :
                                ~qef_unsolved(At(vertex_stack[l], j).qef)}} :
           l \in DOMAIN vertex_stack}

\* C4: QEF single-solve: the assertion of recursively_solve_qefs never fails,
\* and solve_qefs has solved as many QEFs as there are clusters with a solved
\* QEF, so none was solved twice.
C4_SingleSolve ==
    /\ failure # "found solved qef"
    /\ num_solved = Cardinality(SolvedQefs)

\* C4: the solve has descended from the top layer to clusters below it
C4_Witness ==
    /\ pc = "quads"
    /\ num_solved > Len(vertex_stack[Len(vertex_stack)])
    /\ Len(vertex_stack) >= 3

\* C5: HitZero recovery: from a HitZero the only step moves origin.x by a
\* non-zero amount of magnitude in (res/11, res/10], empties the value grid
\* and the mesh, zeroes qefs and clamps, keeps origin.y, origin.z, dim and res
\* and goes back to sampling; a mesh is returned only by an attempt without
\* HitZero.
C5_HitZeroRecovery ==
    [][/\ pc = "hitzero" =>
             /\ origin'[1] # origin[1]
             /\ 11 * Abs(origin'[1] - origin[1]) > res
             /\ 10 * Abs(origin'[1] - origin[1]) <= res
             /\ value_grid' = <<>>
             /\ mesh'.vertices = <<>> /\ mesh'.faces = <<>>
             /\ qefs' = 0 /\ clamps' = 0
             /\ origin'[2] = origin[2] /\ origin'[3] = origin[3]
             /\ dim' = dim /\ res' = res
             /\ pc' = "start"
       /\ pc' = "done" => (hit_zero' = None /\ pc = "quads")]_vars

\* C5: a run that hit zero, moved the origin and then returned a mesh
C5_Witness == pc = "done" /\ attempts >= 2 /\ origin[1] # 0 /\ Len(mesh.faces) > 0

\* the side of the sampled cube, in corners
SampledSize == pow2roundup(MaxDim)

SampledCube == (0..(SampledSize - 1)) \X (0..(SampledSize - 1)) \X (0..(SampledSize - 1))

\* the value of the field at grid corner i
FieldAt(i) == approx_value(object, PointOf(origin, res, i))

\* |v| > s * res * sqrt(3) at corner i
BeyondDiagonal(i, s) == FieldAt(i) * FieldAt(i) > 3 * s * s * res * res

AlignedTo(i, s) == <<(i[1] \div s) * s, (i[2] \div s) * s, (i[3] \div s) * s>>

RECURSIVE Visited(_, _)
\* the sub-cube of half-size s at corner i is one that sample_value_grid looks
\* at: the sub-cube around it was not skipped
Visited(i, s) ==
    IF 2 * s >= SampledSize THEN TRUE
    ELSE /\ Visited(AlignedTo(i, 2 * s), 2 * s)
         /\ ~BeyondDiagonal(AlignedTo(i, 2 * s), 2 * s)

\* the corners stored when a sub-cube is skipped exactly if s = 1 or |v| > s * res * sqrt(3)
StoredCorners ==
    {i \in SampledCube :
        \E s \in {t \in 1..SampledSize : SampledSize % (2 * t) = 0} :
            /\ AlignedTo(i, s) = i
            /\ Visited(i, s)
            /\ (s = 1 \/ BeyondDiagonal(i, s))}

CellCorners == {0, 1} \X {0, 1} \X {0, 1}

\* the corners of cell c do not all have the same sign
MixedCell(c) == Cardinality({FieldAt(offset(c, o)) < 0 : o \in CellCorners}) = 2

\* C6: sparse sampling coverage: when sample_value_grid has completed without
\* HitZero, every cell inside the sampled cube whose corners do not all have
\* the same sign has its 8 corners in the value grid, and the corners stored
\* are those of a sampling that skips a sub-cube only if its half-size is 1 or
\* |v| > s * res * sqrt(3) at its origin.
C6_SamplingCoverage ==
    pc = "edges" =>
       /\ \A c \in SampledCube :
             (\A o \in CellCorners : offset(c, o) \in SampledCube) /\ MixedCell(c)
                => \A o \in CellCorners : offset(c, o) \in DOMAIN value_grid
       /\ DOMAIN value_grid = StoredCorners

\* C6: a sampling that skipped sub-cubes and has a cell with corners of both signs
C6_Witness ==
    /\ pc = "edges"
    /\ DOMAIN value_grid # SampledCube
    /\ \E c \in SampledCube :
          (\A o \in CellCorners : offset(c, o) \in SampledCube) /\ MixedCell(c)

AfterEdgePass == pc \in {"leaves", "subsample", "solve", "quads", "done"}

OppositeSigns(v, w) == (v < 0) # (w < 0)

\* C7: edge-grid completeness: after the edge pass, for every index i and
\* direction d with i and i + unit(d) in the value grid, (d, i) is a key of
\* the edge grid iff the two values have opposite signs; every key has an
\* edge in {A, B, C} and both endpoints in the value grid.
C7_EdgeGridComplete ==
    AfterEdgePass =>
       /\ \A i \in DOMAIN value_grid : \A d \in 0..2 :
             offset(i, Unit(d)) \in DOMAIN value_grid =>
                ([edge |-> d, index |-> i] \in DOMAIN edge_grid
                   <=> OppositeSigns(value_grid[i], value_grid[offset(i, Unit(d))]))
       /\ \A ei \in DOMAIN edge_grid :
             /\ ei.edge \in 0..2
             /\ ei.index \in DOMAIN value_grid
             /\ offset(ei.index, Unit(ei.edge)) \in DOMAIN value_grid

\* C7: an edge grid with keys in every direction
C7_Witness ==
    /\ pc = "leaves"
    /\ \A d \in 0..2 : \E ei \in DOMAIN edge_grid : ei.edge = d
    /\ \E i \in DOMAIN value_grid : \E d \in 0..2 :
          /\ offset(i, Unit(d)) \in DOMAIN value_grid
          /\ [edge |-> d, index |-> i] \notin DOMAIN edge_grid

\* the grid endpoints of the edge of key ei
EndA(ei) == PointOf(origin, res, ei.index)
EndB(ei) == PointOf(origin, res, offset(ei.index, Unit(ei.edge)))

OnSegment(p, a, b) ==
    \A k \in 1..3 : Min2(a[k], b[k]) <= p[k] /\ p[k] <= Max2(a[k], b[k])

\* |v| < PRECISION * res
BelowPrecision(v) == PrecisionInv * Abs(v) < res

\* C8 as stated: the point of every plane of the edge grid lies on the segment
\* between the two grid endpoints of its edge and equals neither endpoint.
C8_StrictlyBetween ==
    \A ei \in DOMAIN edge_grid :
        /\ OnSegment(edge_grid[ei].p, EndA(ei), EndB(ei))
        /\ edge_grid[ei].p \notin {EndA(ei), EndB(ei)}

\* C8 amended: the point of every plane of the edge grid lies on the closed
\* segment between the two grid endpoints of its edge; it is an endpoint only
\* if that endpoint's value is below PRECISION * res in magnitude and is the
\* smaller of the two, so it lies strictly between the endpoints whenever
\* both endpoint values are at least PRECISION * res in magnitude.
C8_OnClosedEdge ==
    \A ei \in DOMAIN edge_grid :
        /\ OnSegment(edge_grid[ei].p, EndA(ei), EndB(ei))
        /\ edge_grid[ei].p = EndA(ei) =>
              /\ BelowPrecision(value_grid[ei.index])
              /\ Abs(value_grid[ei.index]) <= Abs(value_grid[offset(ei.index, Unit(ei.edge))])
        /\ edge_grid[ei].p = EndB(ei) =>
              /\ BelowPrecision(value_grid[offset(ei.index, Unit(ei.edge))])
              /\ Abs(value_grid[offset(ei.index, Unit(ei.edge))]) < Abs(value_grid[ei.index])

\* C8: an edge grid, past the edge pass, with a plane at a grid endpoint
C8_Witness ==
    /\ AfterEdgePass
    /\ \E ei \in DOMAIN edge_grid : edge_grid[ei].p \in {EndA(ei), EndB(ei)}

\* the mesh of the run on the same input whose edge grid iterates in key order
MeshInKeyOrder(rule) ==
    compute_quads(value_grid, edge_grid, rule, edge_grid_keys(edge_grid, 0), 1,
                  [mesh |-> EmptyMesh, vertex_map |-> <<>>, qefs |-> 0, clamps |-> 0,
                   fail |-> NoFailure, p |-> <<>>]).mesh

\* C9 as stated: vertex and face orderings are deterministic for a given
\* input: a run without HitZero returns the same sequence of mesh vertices and
\* the same sequence of faces as the run on the same object, resolution and
\* origin whose edge grid iterates in key order.
C9_DeterministicOrder ==
    (pc = "done" /\ attempts = 1) => \E rule \in ClampRules : mesh = MeshInKeyOrder(rule)

\* the mesh positions q0..q3 of the quad of key, in QUADS order
QuadVertex(key, j) ==
    vertex_map[Unwrap(vertex_index_for(value_grid, QUADS[key.edge][j],
                          neg_offset(key.index, EDGE_OFFSET[QUADS[key.edge][j]])).vertex_index)]

\* C10: quad orientation: compute_quad appends exactly two faces for every key
\* (d, i) of the edge grid, over the mesh vertices q0..q3 looked up in QUADS[d]
\* order: (q0,q1,q2) and (q2,q3,q0) if value_grid[i] is not negative,
\* (q3,q2,q1) and (q1,q0,q3) if it is.
C10_QuadOrientation ==
    pc = "done" =>
       /\ Len(mesh.faces) = 2 * Cardinality(DOMAIN edge_grid)
       /\ \A k \in 1..Cardinality(DOMAIN edge_grid) :
             LET key == edge_grid_keys(edge_grid, seed)[k]
                 q == [j \in 1..4 |-> QuadVertex(key, j)]
             IN IF value_grid[key.index] < 0
                THEN /\ mesh.faces[2 * k - 1] = <<q[4], q[3], q[2]>>
                     /\ mesh.faces[2 * k] = <<q[2], q[1], q[4]>>
                ELSE /\ mesh.faces[2 * k - 1] = <<q[1], q[2], q[3]>>
                     /\ mesh.faces[2 * k] = <<q[3], q[4], q[1]>>

\* C10: a mesh with a quad of either orientation
C10_Witness ==
    /\ pc = "done"
    /\ \E ei \in DOMAIN edge_grid : value_grid[ei.index] < 0
    /\ \E ei \in DOMAIN edge_grid : value_grid[ei.index] > 0

\* the edge-sets of cfg partition the edges of S
Partitions(cfg, S) ==
    /\ UNION Range(cfg) = S
    /\ \A i, j \in DOMAIN cfg : i # j => cfg[i] \cap cfg[j] = {}
    /\ \A i \in DOMAIN cfg : cfg[i] # {}

\* the positions of the edge-sets of cfg that share an edge with edge_set
SharingPositions(cfg, edge_set) == {i \in DOMAIN cfg : cfg[i] \cap edge_set # {}}

\* the k-th smallest element of the set of numbers S
KthOf(S, k) == CHOOSE i \in S : Cardinality({j \in S : j <= i}) = k

\* C11: get_connected_edges_from_edge_set(edge_set, cell) returns exactly the
\* edge-sets of CELL_CONFIGS[cell] that share an edge with edge_set, each once
\* and in table order; if the edge-sets of the cell partition its crossing
\* edges and edge_set has only crossing edges, the debug assertion holds; for
\* cell {0,3,5,6} and edge_set {4,5,10,11} the result is {5,6,10} and {3,4,11}.
C11_ConnectedEdgeSets ==
    call.op = "connected_edges" =>
       LET cfg == CELL_CONFIGS[call.cell]
           at == SharingPositions(cfg, call.edge_set)
       IN /\ Len(call.result) = Cardinality(at)
          /\ \A k \in 1..Len(call.result) : call.result[k] = cfg[KthOf(at, k)]
          /\ (Partitions(cfg, CrossingEdges(call.cell))
                 /\ call.edge_set \subseteq CrossingEdges(call.cell)) => call.asserted
          /\ (call.cell = {0, 3, 5, 6} /\ call.edge_set = {4, 5, 10, 11}) =>
                /\ Len(call.result) = 2
                /\ Range(call.result) = {{5, 6, 10}, {3, 4, 11}}

\* C11: the call of the source's test
C11_Witness ==
    /\ call.op = "connected_edges"
    /\ call.cell = {0, 3, 5, 6}
    /\ call.edge_set = {4, 5, 10, 11}
    /\ call.asserted
    /\ Len(call.result) = 2

\* C12: canonicalisation: e.base() is in {A,B,C} and is the edge numbered
\* e mod 3, and EdgeIndex(e, i).base() = (e.base(), i + EDGE_OFFSET[e]); for
\* every direction d, canonical index c and quad edge q of QUADS[d],
\* EdgeIndex(q, c - EDGE_OFFSET[q]).base() = (d, c), and the four cells
\* c - EDGE_OFFSET[q] are pairwise distinct.
C12_Canonicalisation ==
    /\ call.op = "base" =>
          /\ call.edge_base \in 0..2
          /\ call.edge_base = call.edge % 3
          /\ call.result = [edge |-> call.edge_base,
                            index |-> <<call.index[1] + EDGE_OFFSET[call.edge][1],
                                        call.index[2] + EDGE_OFFSET[call.edge][2],
                                        call.index[3] + EDGE_OFFSET[call.edge][3]>>]
    /\ call.op = "quad_cells" =>
          /\ \A j \in 1..4 : call.result[j] = [edge |-> call.edge, index |-> call.index]
          /\ \A j, k \in 1..4 : j # k => call.cells[j] # call.cells[k]

\* C12: the canonical form of an edge that is not A, B or C, in a cell away from the origin
C12_Witness ==
    /\ call.op = "base"
    /\ call.edge > 2
    /\ call.result.index # call.index
    /\ call.index # <<0, 0, 0>>

\* the VertexIndex values reached from the crossing edges: one per quad edge
\* of every key of the edge grid
ReachedVertexIndexes ==
    {Unwrap(vertex_index_for(value_grid, QUADS[key.edge][j],
                neg_offset(key.index, EDGE_OFFSET[QUADS[key.edge][j]])).vertex_index) :
        key \in DOMAIN edge_grid, j \in 1..4}

\* C13: after a successful attempt the mesh has exactly two faces per entry of
\* the edge grid (none, and no vertex, for an empty edge grid); every index of
\* every face refers to an existing mesh vertex; the four vertex indices of
\* one quad are pairwise distinct; and the mesh has exactly one vertex per
\* distinct VertexIndex reached from a crossing edge, as many as the leaf
\* layer has clusters.
C13_MeshShape ==
    pc = "done" =>
       /\ Len(mesh.faces) = 2 * Cardinality(DOMAIN edge_grid)
       /\ edge_grid = <<>> => (mesh.faces = <<>> /\ mesh.vertices = <<>>)
       /\ \A f \in DOMAIN mesh.faces : \A k \in 1..3 :
             mesh.faces[f][k] \in 0..(Len(mesh.vertices) - 1)
       /\ \A q \in 1..Cardinality(DOMAIN edge_grid) :
             Cardinality(Range(mesh.faces[2 * q - 1]) \cup Range(mesh.faces[2 * q])) = 4
       /\ {mesh.vertices[n].of : n \in DOMAIN mesh.vertices} = ReachedVertexIndexes
       /\ Len(mesh.vertices) = Cardinality(ReachedVertexIndexes)
       /\ Len(mesh.vertices) = Len(vertex_stack[1])

\* C13: a returned mesh whose quads share vertices
C13_Witness ==
    /\ pc = "done"
    /\ Len(mesh.vertices) > 0
    /\ Len(mesh.vertices) < 4 * Cardinality(DOMAIN edge_grid)

\* C13: a returned mesh for a field without sign change
C13_EmptyField ==
    pc = "done" /\ edge_grid = <<>> /\ value_grid # <<>> /\ mesh = EmptyMesh

SimplificationFinished == pc \in {"solve", "quads", "done"}

\* cluster c of layer l has its parent in layer l + 1 of the stack, which lists it
ParentInStack(l, c) ==
    /\ l < Len(vertex_stack)
    /\ Unwrap(At(vertex_stack[l], c).parent) \in 0..(Len(vertex_stack[l + 1]) - 1)
    /\ c \in At(vertex_stack[l + 1], Unwrap(At(vertex_stack[l], c).parent)).children

\* C14 as stated: when simplification has finished, every cluster c of every
\* layer k whose parent field is set to p has layer k + 1 in the vertex stack,
\* p a valid index into it, and cluster p of layer k + 1 listing c among its
\* children.
C14_ParentsInStack ==
    SimplificationFinished =>
       \A l \in DOMAIN vertex_stack : \A c \in 0..(Len(vertex_stack[l]) - 1) :
          At(vertex_stack[l], c).parent # None => ParentInStack(l, c)

\* C14: what the code keeps: the links below the top layer are in the stack,
\* and the clusters of the top layer point into the result that was dropped
C14_ParentsBelowTop ==
    SimplificationFinished =>
       \A l \in DOMAIN vertex_stack : \A c \in 0..(Len(vertex_stack[l]) - 1) :
          /\ At(vertex_stack[l], c).parent # None
          /\ IF l < Len(vertex_stack) THEN ParentInStack(l, c)
             ELSE c \in At(next_layer, Unwrap(At(vertex_stack[l], c).parent)).children

\* cluster i of layer l has been solved
Solved(l, i) == ~qef_unsolved(At(vertex_stack[l], i).qef)

\* the parent of cluster c of layer l, below the top layer, was solved with
\* |error| above the threshold
ParentAboveThreshold(l, c) ==
    At(vertex_stack[l + 1], Unwrap(At(vertex_stack[l], c).parent)).qef.error = "large"

\* C15: hierarchical descent rule: after solve_qefs every cluster of the top
\* layer is solved; a cluster of a lower layer is solved iff its parent in the
\* layer above is solved with |error| > threshold; the returned count is the
\* number of solved clusters.
C15_DescentRule ==
    pc \in {"quads", "done"} =>
       /\ \A i \in 0..(Len(vertex_stack[Len(vertex_stack)]) - 1) :
             Solved(Len(vertex_stack), i)
       /\ \A l \in 1..(Len(vertex_stack) - 1) : \A c \in 0..(Len(vertex_stack[l]) - 1) :
             Solved(l, c) <=> ParentAboveThreshold(l, c)
       /\ num_solved = Cardinality({<<l, i>> \in
              UNION {{l} \X (0..(Len(vertex_stack[l]) - 1)) : l \in DOMAIN vertex_stack} :
                 Solved(l, i)})

\* C15: a solved stack with solved and unsolved clusters in one lower layer
C15_Witness ==
    /\ pc = "quads"
    /\ \E l \in 1..(Len(vertex_stack) - 1) :
          /\ \E c \in 0..(Len(vertex_stack[l]) - 1) : Solved(l, c)
          /\ \E c \in 0..(Len(vertex_stack[l]) - 1) : ~Solved(l, c)

\* C16: every attempt of one call of tesselate starts sampling with an empty
\* value grid, edge grid, vertex map and mesh and with zero counters; HitZero
\* is raised only during sampling, before the edge grid, the vertex map or the
\* mesh are written.
C16_AttemptsStartEmpty ==
    /\ pc = "start" =>
          /\ value_grid = <<>>
          /\ edge_grid = <<>>
          /\ vertex_map = <<>>
          /\ mesh = EmptyMesh
          /\ qefs = 0 /\ clamps = 0
    /\ hit_zero # None =>
          /\ pc = "hitzero"
          /\ edge_grid = <<>>
          /\ vertex_map = <<>>
          /\ mesh = EmptyMesh
          /\ vertex_stack = <<>>

\* C16: a retry about to sample, after an attempt that had stored values before it hit zero
C16_Witness == pc = "start" /\ attempts >= 1 /\ origin[1] # 0

====
